---- MODULE Spec2Model ----
(***************************************************************************)
(* Locator-resilience core of the Apollo scraper: the selector miner      *)
(* (mineSelectors, validateSelectors, updateSelectors and the crawler's    *)
(* request handler that chains them), the persisted selectors.ts and its   *)
(* backup, and the ordered-candidate resolution shared with the scraper    *)
(* and the monitor; the monitor's request handler, its report and its      *)
(* escalation; useFallbackSelectors; the scraper's page loop and the       *)
(* persisted LAST_SCRAPED_PAGE.                                            *)
(*                                                                         *)
(* Strings are sequences of one-character strings, so that the quote       *)
(* stripping and the quoting the updater performs on source text are       *)
(* computed, not assumed.  Long selector strings of the source are         *)
(* represented by short ones that keep their quote characters in place.    *)
(***************************************************************************)
EXTENDS Integers, Sequences, FiniteSets, TLC

VARIABLES
    file,       \* selectors.ts on disk
    backup,     \* selectors.ts.backup on disk, or NoFile
    loaded,     \* SELECTORS.table.rowSelectors as imported when the process started
    SELECTORS,  \* the SELECTORS object in memory, for useFallbackSelectors
    doc,        \* the live page: a fixed document, or a page of which nothing is fixed
    seen,       \* mineSelectors: what the page answered for each mapped cell
    mined,      \* the MinedSelectors object of the current mining pass
    mi,         \* mineSelectors: position in cellMapping (0 outside the loop)
    rowSel,     \* mineSelectors: index of the row selector taken (0: none)
    rowCells,   \* mineSelectors: cells.length of the first row
    pc,         \* position of the running handler / function
    attempt,    \* number of retries the crawler has made of the request
    calls,      \* functions the request handler has called in this attempt
    totalCount, \* validateSelectors: local `totalCount`
    validCount, \* validateSelectors: local `validCount`
    isValid,    \* the handler's local `isValid`
    changed,    \* updateSelectors: local counter `changed`
    changes,    \* updateSelectors: local list `changes`
    again,      \* updateSelectors was called a second time with the same object
    rowPage,    \* candidate resolution: what the page holds for each candidate
    res,        \* candidate resolution: the result
    el,         \* findBestSelector: the element handed in, then its ancestors
    selector,   \* findBestSelector: the value returned
    results,    \* the monitor's `results`: categories of probe results
    report,     \* generateReport: the counters and the lines of the report
    logged,     \* the monitor: the lines handleSelectorFailures logged
    written,    \* the monitor: the report files written
    store,      \* the scraper: LAST_SCRAPED_PAGE in the key-value store
    startPage,  \* the scraper: the module variable `startPage`
    pageNum,    \* the scraper: the loop variable `pageNum`
    scraped,    \* the scraper: the pages scrapeCurrentPage returned for, in order
    run         \* the scraper: number of the run

diskVars == <<file, backup>>
pageVars == <<loaded, SELECTORS, doc>>
mineVars == <<seen, mined, mi, rowSel, rowCells>>
valVars == <<totalCount, validCount, isValid>>
updVars == <<changed, changes>>
ctlVars == <<attempt, calls, again>>
resVars == <<rowPage, res>>
genVars == <<el, selector>>
monVars == <<results, report, logged, written>>
scrVars == <<store, startPage, pageNum, scraped, run>>
vars == <<file, backup, loaded, SELECTORS, doc, seen, mined, mi, rowSel,
          rowCells, pc, attempt, calls, totalCount, validCount, isValid, changed, changes,
          again, rowPage, res, el, selector, results, report, logged,
          written, store, startPage, pageNum, scraped, run>>

----------------------------------------------------------------------------
(* Characters and strings *)

SQ == "'"
DQ == "\""
QuoteChars == {SQ, DQ}

\* null: a value no string equals (every element of a string is one character)
Null == <<"null">>
\* a path at which no file exists
NoFile == [layout |-> "absent"]

\* selectors.ts after a write that broke off: not the text that was there,
\* not the text that was to be written
TornFile == [layout |-> "torn"]

\* text.replace(/['"]/g, '')
StripQuotes(text) == SelectSeq(text, LAMBDA c : c \notin QuoteChars)

\* the template `'${value}'`
Literal(value) == <<SQ>> \o value \o <<SQ>>

\* 'div[role="row"][aria-rowindex]:not([aria-rowindex="0"])'
SelReliable == <<"r", "[", DQ, "0", DQ, "]">>
\* 'div.zp_Uiy0R'
SelAuto == <<"d", ".", "U">>
\* 'div[role="row"]:not(:has([role="columnheader"]))'
SelLegacy == <<"r", ":", "[", DQ, "h", DQ, "]">>
\* 'div[role="cell"]'
SelCell == <<"c", "[", DQ, "c", DQ, "]">>
\* 'a[href*="linkedin.com/in"]'
SelLinkedIn == <<"a", "[", DQ, "l", DQ, "]">>
\* 'button:has-text("Access")'
SelAccess == <<"b", ":", "(", DQ, "A", DQ, ")">>

----------------------------------------------------------------------------
(* The MinedSelectors object *)

FieldKeys ==
    {"name", "jobTitle", "companyName", "email", "emailRequiresAccess",
     "phoneRequestLink", "phoneVisible", "linkedIn", "location",
     "employeeCount", "nicheTags"}

AllKeys == FieldKeys \cup {"rowClass"}

\* Object.keys / Object.entries enumerate in insertion order; mineSelectors
\* inserts rowClass first and then follows cellMapping, emailRequiresAccess
\* being set before email and phoneVisible before phoneRequestLink.
KeyOrder ==
    <<"rowClass", "name", "jobTitle", "companyName", "emailRequiresAccess",
      "email", "phoneVisible", "phoneRequestLink", "linkedIn", "location",
      "employeeCount", "nicheTags">>

EmptyMined == [k \in {} |-> Null]

Has(m, k) == k \in DOMAIN m

\* JavaScript truthiness of m[k]: present, not null, not the empty string
Truthy(m, k) == Has(m, k) /\ m[k] /= Null /\ m[k] /= <<>>

Put(m, k, v) == [x \in DOMAIN m \cup {k} |-> IF x = k THEN v ELSE m[x]]

----------------------------------------------------------------------------
(* selectors.ts: the persisted artifact *)

\* Property names of the `table` object literal besides rowSelectors
PropKeys == FieldKeys \cup {"cell"}

\* Selector strings as selectors.ts holds them (part_002, lines 26-39)
PersistedVal(k) ==
    CASE k = "cell" -> SelCell
      [] k = "name" -> <<"a", "[", DQ, "n", DQ, "]", " ", "s", ".", "C">>
      [] k = "jobTitle" -> <<"s", ".", "F">>
      [] k = "companyName" -> <<"a", ".", "R", " ", "s", ".", "C">>
      [] k = "email" -> <<"s", ".", "C", ".", "T">>
      [] k = "emailRequiresAccess" -> SelAccess
      [] k = "phoneRequestLink" -> <<"a", ".", "B", ":", "(", DQ, "R", DQ, ")">>
      [] k = "phoneVisible" -> <<"s", ".", "C">>
      [] k = "linkedIn" -> SelLinkedIn
      [] k = "location" -> <<"s", ".", "F">>
      [] k = "employeeCount" -> <<"s", ".", "V">>
      [] k = "nicheTags" -> <<"s", ".", "z">>

\* The `table` object literal of the repository's selectors.ts, as source
\* text: every string is a single-quoted literal.
RepoTable ==
    [hasRows |-> TRUE,
     rows |-> <<Literal(SelReliable), Literal(SelAuto), Literal(SelLegacy)>>,
     props |-> [k \in PropKeys |-> Literal(PersistedVal(k))]]

\* useFallbackSelectors, lines 8-45 of part_000: the sections written out
\* in its object literal
HardCodedSections ==
    [login |->
        [emailInput |-> "input[name=\"email\"]",
         passwordInput |-> "input[name=\"password\"]",
         submitButton |-> "button[type=\"submit\"]:has-text(\"Log In\")",
         emailLoginButton |-> "button:has-text(\"Continue with Email\"), button:has-text(\"Sign in using Email\")"],
     postLogin |-> [mainApp |-> "#main-app"],
     modals |-> <<".zp-modal-mask", "[role=\"dialog\"]">>,
     table |->
        [rowSelectors |->
            <<"div[role=\"row\"][aria-rowindex]:not([aria-rowindex=\"0\"])",
              "div.zp_Uiy0R",
              "div[role=\"row\"]:not(:has([role=\"columnheader\"]))">>,
         cell |-> "div[role=\"cell\"]",
         name |-> "a[data-testid=\"contact-name-cell\"] span.zp_CaeaN",
         jobTitle |-> "span.zp_FEm_X",
         companyName |-> "a.zp_REh41 span.zp_CaeaN",
         email |-> "span.zp_CaeaN.zp_JTaUA",
         emailRequiresAccess |-> "button:has-text(\"Access\")",
         phoneRequestLink |-> "a.zp_BCsLt:has-text(\"Request\")",
         phoneVisible |-> "span.zp_CaeaN",
         linkedIn |-> "a[href*=\"linkedin.com/in\"]",
         location |-> "span.zp_FEm_X",
         employeeCount |-> "span.zp_Vnh4L",
         nicheTags |-> "span.zp_z4aAi"],
     navigation |->
        [nextButton |-> "button[aria-label=\"Next page\"], button:has-text(\"Next\")",
         pageInput |-> "input[aria-label=\"Page number\"]"]]

\* part_002 lines 4-46: SELECTORS.current as selectors.ts defines it, the
\* same text as the literal of useFallbackSelectors
RepoCurrent == HardCodedSections

\* part_002 lines 48-62: SELECTORS.fallback as selectors.ts defines it
RepoFallback ==
    [login |->
        [emailInput |-> "input[name=\"email\"]",
         passwordInput |-> "input[name=\"password\"]",
         submitButton |-> "button[type=\"submit\"]"],
     table |->
        [rowSelectors |-> <<"div[role=\"row\"]">>,
         cell |-> "[role=\"cell\"]",
         name |-> "a[href*=\"/contacts/\"]",
         email |-> "span:has-text(\"@\")",
         phone |-> "a:has-text(\"Request\"), span:has-text(\"+\")"]]

\* what selectors.ts holds besides the table of the current variant
OtherSections ==
    [fallback |-> RepoFallback,
     login |-> RepoCurrent.login,
     postLogin |-> RepoCurrent.postLogin,
     modals |-> RepoCurrent.modals,
     navigation |-> RepoCurrent.navigation]

\* selectors.ts.  layout "nested" is the repository's file: SELECTORS is
\* { current: { ..., table: {...} }, fallback: {...}, get table() {...}, ... },
\* so the top-level member named `table` is a get accessor.  layout "flat"
\* is a file whose top-level member `table` is the object literal itself.
\* header holds the change-log comment blocks, newest first.
MkFile(layout, table) ==
    [layout |-> layout, table |-> table, header |-> <<>>,
     others |-> OtherSections]

RepoFile == MkFile("nested", RepoTable)

\* obj.getPropertyOrThrow('table'): the first top-level member named table;
\* a text that does not parse to the SELECTORS declaration has none
GetTableProperty(f) ==
    IF f.layout = "flat"
    THEN [kind |-> "PropertyAssignment", init |-> f.table]
    ELSE IF f.layout = "nested"
         THEN [kind |-> "GetAccessor"]
         ELSE [kind |-> "none"]

----------------------------------------------------------------------------
(* validateSelectors *)

\* Line 355: the entries the loop tests against the page
Attempted(m) == {k \in DOMAIN m : k /= "rowClass" /\ Truthy(m, k)}

\* Lines 373 and 376: validCount / den >= 0.7 in IEEE doubles, for
\* validCount >= 0.  A zero divisor gives Infinity (accepted) or, for 0 / 0,
\* NaN (rejected); a negative divisor gives a quotient <= 0.  For the
\* divisors that occur (at most 11) the only quotient equal to 7/10 is
\* 7 / 10 itself, which rounds to the double the literal 0.7 denotes, so the
\* comparison agrees with the exact one.
RateAtLeastThreshold(count, den) ==
    IF den > 0 THEN 10 * count >= 7 * den
    ELSE IF den = 0 THEN count > 0
    ELSE FALSE

\* Lines 348-377.  The page decides, entry by entry, which of the tested
\* locators match a visible element; an entry whose test throws is not
\* counted (line 368).
ValidateSelectors ==
    /\ pc = "validate"
    /\ \E valid \in SUBSET Attempted(mined) :
          /\ totalCount' = Cardinality(DOMAIN mined)
          /\ validCount' = Cardinality(valid)
          /\ isValid' = RateAtLeastThreshold(Cardinality(valid),
                                             Cardinality(DOMAIN mined) - 1)
    /\ pc' = "validated"
    /\ UNCHANGED <<diskVars, pageVars, mineVars, updVars, ctlVars, resVars, genVars, monVars,
                   scrVars>>

----------------------------------------------------------------------------
(* updateSelectors *)

\* RowUpdate with the mined class written over the first entry
RowUpdateFirstSlot(t, m) ==
    IF Truthy(m, "rowClass") /\ t.hasRows /\ Len(t.rows) > 1
    THEN LET oldValue == StripQuotes(t.rows[2])
         IN IF oldValue /= m["rowClass"]
            THEN LET grown == IF Len(t.rows) < 3
                              THEN Append(t.rows, Literal(SelAuto))
                              ELSE t.rows
                 IN [rows |-> [grown EXCEPT ![1] = Literal(m["rowClass"])],
                     log |-> <<[what |-> "rowSelectors[1]", old |-> oldValue,
                                new |-> m["rowClass"]]>>]
            ELSE [rows |-> t.rows, log |-> <<>>]
    ELSE [rows |-> t.rows, log |-> <<>>]

\* Lines 401-424: the new row list and the log line, or no change
RowUpdate(t, m) ==
    IF Truthy(m, "rowClass") /\ t.hasRows /\ Len(t.rows) > 1
    THEN LET oldValue == StripQuotes(t.rows[2])
         IN IF oldValue /= m["rowClass"]
            THEN LET grown == IF Len(t.rows) < 3
                              THEN Append(t.rows, Literal(SelAuto))
                              ELSE t.rows
                 IN [rows |-> [grown EXCEPT ![2] = Literal(m["rowClass"])],
                     log |-> <<[what |-> "rowSelectors[1]", old |-> oldValue,
                                new |-> m["rowClass"]]>>]
            ELSE [rows |-> t.rows, log |-> <<>>]
    ELSE [rows |-> t.rows, log |-> <<>>]

\* Lines 430-437: the old value the updater compares a mined value with
OldValue(text) == StripQuotes(text)

\* Lines 427-447 for one entry [key, value] of the mined object
FieldUpdate(props, log, key, m) ==
    IF key = "rowClass" \/ ~Truthy(m, key)
    THEN [props |-> props, log |-> log]
    ELSE IF key \in DOMAIN props
         THEN LET oldValue == OldValue(props[key])
              IN IF oldValue /= m[key]
                 THEN [props |-> [props EXCEPT ![key] = Literal(m[key])],
                       log |-> Append(log, [what |-> key, old |-> oldValue,
                                            new |-> m[key]])]
                 ELSE [props |-> props, log |-> log]
         ELSE [props |-> Put(props, key, Literal(m[key])),
               log |-> Append(log, [what |-> key, old |-> Null,
                                    new |-> m[key]])]

\* The loop of lines 427-447 over Object.entries(mined), entries i..12
RECURSIVE FieldLoop(_, _, _, _)
FieldLoop(props, log, i, m) ==
    IF i > Len(KeyOrder)
    THEN [props |-> props, log |-> log]
    ELSE IF KeyOrder[i] \in DOMAIN m
         THEN LET r == FieldUpdate(props, log, KeyOrder[i], m)
              IN FieldLoop(r.props, r.log, i + 1, m)
         ELSE FieldLoop(props, log, i + 1, m)

\* Lines 398-447 on the table object literal: the edited literal and the
\* list `changes` (changed is its length: every push is paired with changed++)
ApplyMined(t, m) ==
    LET row == RowUpdate(t, m)
        fld == FieldLoop(t.props, row.log, 1, m)
    IN [table |-> [hasRows |-> t.hasRows, rows |-> row.rows, props |-> fld.props],
        changes |-> fld.log]

\* a backup step that keeps an existing backup instead of overwriting it
UpdateBackupOnce ==
    /\ pc = "upd_backup"
    /\ \/ /\ backup' = IF file /= NoFile /\ backup = NoFile THEN file ELSE backup
          /\ pc' = "upd_apply"
       \/ /\ file /= NoFile
          /\ backup' = backup
          /\ pc' = "upd_throw"
    /\ UNCHANGED <<file, pageVars, mineVars, valVars, updVars, ctlVars, resVars, genVars, monVars,
                   scrVars>>

\* Lines 383-388
UpdateBackup ==
    /\ pc = "upd_backup"
    /\ \/ /\ backup' = IF file /= NoFile THEN file ELSE backup
          /\ pc' = "upd_apply"
       \/ /\ file /= NoFile       \* copyFileSync fails
          /\ backup' = backup
          /\ pc' = "upd_throw"
    /\ UNCHANGED <<file, pageVars, mineVars, valVars, updVars, ctlVars, resVars, genVars, monVars,
                   scrVars>>

\* Lines 390-463 up to and including file.save()
UpdateApply ==
    /\ pc = "upd_apply"
    /\ IF file = NoFile
       THEN \* addSourceFileAtPath throws
            /\ pc' = "upd_throw"
            /\ UNCHANGED <<file, changed, changes>>
       ELSE LET tableProp == GetTableProperty(file)
            IN IF tableProp.kind /= "PropertyAssignment"
               THEN \* line 396: an accessor has no initializer to read
                    /\ pc' = "upd_throw"
                    /\ UNCHANGED <<file, changed, changes>>
               ELSE LET r == ApplyMined(tableProp.init, mined)
                    IN /\ changed' = Len(r.changes)
                       /\ changes' = r.changes
                       /\ IF Len(r.changes) > 0
                          THEN \/ /\ file' = [file EXCEPT
                                         !.table = r.table,
                                         !.header = <<r.changes>> \o @]
                                  /\ pc' = "upd_test"
                               \/ \* file.save() fails: nothing written,
                                  \* or the write broke off part-way
                                  /\ file' \in {file, TornFile}
                                  /\ pc' = "upd_throw"
                          ELSE /\ file' = file
                               /\ pc' = "upd_ret"
    /\ UNCHANGED <<backup, pageVars, mineVars, valVars, ctlVars, resVars, genVars, monVars,
                   scrVars>>

\* What the self-test can count on the page: rows, and cells of the first row
SelfTestCounts ==
    {[by |-> "selftest", rows |-> 0, cells |-> 0],
     [by |-> "selftest", rows |-> 2, cells |-> 0],
     [by |-> "selftest", rows |-> 2, cells |-> 13]}

\* a self-test that puts the backup back when it finds no rows
TestUpdatedSelectorsRevert ==
    /\ pc = "upd_test"
    /\ \/ /\ pc' = "upd_throw"
          /\ res' = res
          /\ file' = file
       \/ /\ res' \in SelfTestCounts
          /\ file' = IF res'.rows = 0 THEN backup ELSE file
          /\ pc' = "upd_ret"
    /\ UNCHANGED <<backup, pageVars, mineVars, valVars, updVars, ctlVars,
                   rowPage, genVars, monVars,
                   scrVars>>

\* Lines 458-460 and 466-481: the self-test re-imports selectors.ts, counts
\* and logs, or throws
TestUpdatedSelectors ==
    /\ pc = "upd_test"
    /\ \/ /\ pc' = "upd_throw"
          /\ res' = res
       \/ /\ res' \in SelfTestCounts
          /\ pc' = "upd_ret"
    /\ UNCHANGED <<diskVars, pageVars, mineVars, valVars, updVars, ctlVars,
                   rowPage, genVars, monVars,
                   scrVars>>

----------------------------------------------------------------------------
(* What the live page yields *)

\* 'div.' + the zp_ class found on the first row (line 228)
RowClassNew == <<"d", ".", "W">>

\* Locators findBestSelector returns for the elements the miner probes
AnchorSel == <<"a", "[", DQ, "n", DQ, "]">>       \* a[data-testid="..."]
SpanSel == <<"s", ".", "C">>                      \* span.zp_CaeaN
EmailSel == <<"s", ".", "C", ".", "T">>           \* span.zp_CaeaN.zp_JTaUA
RequestSel == <<"a", ".", "B">>                   \* a.zp_BCsLt

\* The locator mineCellSelector returns for a default-strategy cell
CellSel(k) ==
    CASE k = "jobTitle" -> <<"s", ".", "J">>
      [] k = "companyName" -> <<"a", ".", "R">>
      [] k = "location" -> <<"s", ".", "F">>
      [] k = "employeeCount" -> <<"s", ".", "V">>
      [] k = "nicheTags" -> <<"s", ".", "z">>

\* Every value mineSelectors can store under key k
MinedVals(k) ==
    CASE k = "rowClass" -> {RowClassNew}
      [] k = "name" -> {AnchorSel, AnchorSel \o <<" ">> \o SpanSel}
      [] k = "email" -> {EmailSel}
      [] k = "emailRequiresAccess" -> {SelAccess}
      [] k = "phoneRequestLink" -> {RequestSel, SpanSel}
      [] k = "phoneVisible" -> {SpanSel, Null}
      [] k = "linkedIn" -> {SelLinkedIn}
      [] OTHER -> {CellSel(k)}

\* Objects mineSelectors can return: a visible phone is stored under both
\* phone keys (lines 320-321, 334), a null phoneVisible leaves
\* phoneRequestLink unset.
Producible(m) ==
    /\ \A k \in DOMAIN m : m[k] \in MinedVals(k)
    /\ Has(m, "phoneVisible") =>
          IF m["phoneVisible"] = Null
          THEN ~Has(m, "phoneRequestLink")
          ELSE Has(m, "phoneRequestLink") /\ m["phoneRequestLink"] = SpanSel
    /\ (Has(m, "phoneRequestLink") /\ m["phoneRequestLink"] = SpanSel)
          => Has(m, "phoneVisible")

\* All objects whose keys are among KeyOrder[i..], values from MinedVals
RECURSIVE ObjectsFrom(_)
ObjectsFrom(i) ==
    IF i > Len(KeyOrder)
    THEN {EmptyMined}
    ELSE LET rest == ObjectsFrom(i + 1)
         IN rest \cup {Put(m, KeyOrder[i], v) :
                          m \in rest, v \in MinedVals(KeyOrder[i])}

----------------------------------------------------------------------------
(* Files the updater is run against *)

\* selectors.ts as a previous successful mining pass left it
MinedTable ==
    [hasRows |-> TRUE,
     rows |-> <<Literal(SelReliable), Literal(RowClassNew), Literal(SelLegacy)>>,
     props |-> [k \in PropKeys |->
                  IF k = "cell" THEN Literal(SelCell)
                  ELSE Literal(CHOOSE v \in MinedVals(k) : v /= Null)]]

\* a table with two row selectors and few fields
ShortTable ==
    [hasRows |-> TRUE,
     rows |-> <<Literal(SelReliable), Literal(SelAuto)>>,
     props |-> [k \in {"cell", "name", "email"} |-> Literal(PersistedVal(k))]]

\* a table with the single most-reliable row selector
OneRowTable == [RepoTable EXCEPT !.rows = <<Literal(SelReliable)>>]

\* a table without a rowSelectors property
NoRowsTable == [RepoTable EXCEPT !.hasRows = FALSE, !.rows = <<>>]

FlatFiles ==
    {MkFile("flat", t) :
        t \in {RepoTable, MinedTable, ShortTable, OneRowTable, NoRowsTable}}

InitFiles == {RepoFile} \cup FlatFiles

----------------------------------------------------------------------------
(* Ordered-candidate resolution *)

\* minimum number of cells of a data row (part_000 line 239, part_001 line 121)
MinCells == 10

\* What the page holds for one candidate selector: how many elements match,
\* whether a match is visible, how many cells the first match contains.
NoMatch == [count |-> 0, visible |-> FALSE, cells |-> 0]

\* mineSelectors, lines 201-210: the first candidate with count > 0
RECURSIVE MinerFindRows(_, _, _)
MinerFindRows(page, n, i) ==
    IF i > n
    THEN [found |-> 0, tried |-> n]
    ELSE IF page[i].count > 0
         THEN [found |-> i, tried |-> i]
         ELSE MinerFindRows(page, n, i + 1)

\* scrapeCurrentPage, lines 115-130: the first candidate with count > 0 whose
\* first row has at least 10 cells
RECURSIVE ScraperFindRows(_, _, _)
ScraperFindRows(page, n, i) ==
    IF i > n
    THEN [found |-> 0, tried |-> n]
    ELSE IF page[i].count > 0 /\ page[i].cells >= MinCells
         THEN [found |-> i, tried |-> i]
         ELSE ScraperFindRows(page, n, i + 1)

\* testSelector, lines 720-728: waitForSelector (default state: visible)
\* succeeds, then the matches are counted; a timeout gives exists = false
TestSelector(c) ==
    IF c.count > 0 /\ c.visible
    THEN [exists |-> TRUE, count |-> c.count]
    ELSE [exists |-> FALSE, count |-> 0]

\* a resolution that keeps probing after a success and returns the last one
TestMultipleSelectorsLast(page, n, i) ==
    LET hits == {j \in i..n : TestSelector(page[j]).exists}
    IN IF hits = {}
       THEN [exists |-> FALSE, count |-> 0, found |-> 0, tried |-> n]
       ELSE LET j == CHOOSE h \in hits : \A g \in hits : g <= h
            IN [exists |-> TRUE, count |-> page[j].count, found |-> j,
                tried |-> n]

\* testMultipleSelectors, lines 730-741: the first candidate whose test
\* succeeds, together with its count
RECURSIVE TestMultipleSelectors(_, _, _)
TestMultipleSelectors(page, n, i) ==
    IF i > n
    THEN [exists |-> FALSE, count |-> 0, found |-> 0, tried |-> n]
    ELSE LET result == TestSelector(page[i])
         IN IF result.exists
            THEN [exists |-> TRUE, count |-> result.count, found |-> i,
                  tried |-> i]
            ELSE TestMultipleSelectors(page, n, i + 1)

NoRes == [by |-> "none"]

ResolveMiner ==
    /\ pc = "resolve"
    /\ LET r == MinerFindRows(rowPage, Len(rowPage), 1)
       IN res' = [by |-> "miner", found |-> r.found, tried |-> r.tried,
                  mines |-> r.found > 0 /\ rowPage[r.found].cells >= MinCells]
    /\ pc' = "resolved"
    /\ UNCHANGED <<diskVars, pageVars, mineVars, valVars, updVars, ctlVars,
                   rowPage, genVars, monVars,
                   scrVars>>

ResolveScraper ==
    /\ pc = "resolve"
    /\ LET r == ScraperFindRows(rowPage, Len(rowPage), 1)
       IN res' = [by |-> "scraper", found |-> r.found, tried |-> r.tried]
    /\ pc' = "resolved"
    /\ UNCHANGED <<diskVars, pageVars, mineVars, valVars, updVars, ctlVars,
                   rowPage, genVars, monVars,
                   scrVars>>

ResolveMonitor ==
    /\ pc = "resolve"
    /\ LET r == TestMultipleSelectors(rowPage, Len(rowPage), 1)
       IN res' = [by |-> "monitor", found |-> r.found, tried |-> r.tried,
                  exists |-> r.exists, count |-> r.count]
    /\ pc' = "resolved"
    /\ UNCHANGED <<diskVars, pageVars, mineVars, valVars, updVars, ctlVars,
                   rowPage, genVars, monVars,
                   scrVars>>

----------------------------------------------------------------------------
(* mineSelectors *)

cellMapping ==
    <<[index |-> 1, type |-> "name"],
      [index |-> 2, type |-> "jobTitle"],
      [index |-> 3, type |-> "companyName"],
      [index |-> 4, type |-> "email"],
      [index |-> 5, type |-> "phoneRequestLink"],
      [index |-> 7, type |-> "linkedIn"],
      [index |-> 9, type |-> "location"],
      [index |-> 10, type |-> "employeeCount"],
      [index |-> 12, type |-> "nicheTags"]>>

MappedFields == {cellMapping[i].type : i \in 1..Len(cellMapping)}

\* What a cell can answer to the probes of its case of the switch
CellAnswers(f) ==
    CASE f = "name" -> {"none", "anchor", "anchorSpan", "throw"}
      [] f = "linkedIn" -> {"none", "link", "throw"}
      [] f = "email" -> {"none", "span", "access", "spanAccess", "throw"}
      [] f = "phoneRequestLink" ->
            {"none", "request", "visible", "visibleNoSel", "throw"}
      [] OTHER -> {"none", "sel", "throw"}

\* lines 263-340: the effect on `mined` of one cell and its answer
CellResult(m, f, a) ==
    CASE f = "name" /\ a = "anchor" -> Put(m, "name", AnchorSel)
      [] f = "name" /\ a = "anchorSpan" ->
            Put(m, "name", AnchorSel \o <<" ">> \o SpanSel)
      [] f = "linkedIn" /\ a = "link" -> Put(m, "linkedIn", SelLinkedIn)
      [] f = "email" /\ a = "span" -> Put(m, "email", EmailSel)
      [] f = "email" /\ a = "access" -> Put(m, "emailRequiresAccess", SelAccess)
      [] f = "email" /\ a = "spanAccess" ->
            Put(Put(m, "emailRequiresAccess", SelAccess), "email", EmailSel)
      [] f = "phoneRequestLink" /\ a = "request" ->
            Put(m, "phoneRequestLink", RequestSel)
      [] f = "phoneRequestLink" /\ a = "visible" ->
            Put(Put(m, "phoneVisible", SpanSel), "phoneRequestLink", SpanSel)
      [] f = "phoneRequestLink" /\ a = "visibleNoSel" ->
            Put(m, "phoneVisible", Null)
      [] f \notin {"name", "linkedIn", "email", "phoneRequestLink"}
            /\ a = "sel" -> Put(m, f, CellSel(f))
      [] OTHER -> m

\* the try/catch lies inside the loop where a throw ends the whole loop
NextCellAbort(i, a) == IF a = "throw" THEN Len(cellMapping) + 1 ELSE i + 1

\* lines 258, 338-342: the try/catch lies inside the loop body, the loop
\* goes on to the next mapping whatever the cell answered
NextCell(i, a) == i + 1

Unprobed == [f \in MappedFields |-> "unprobed"]

LivePage == [pinned |-> FALSE]

MinerCells == {MinCells - 1, MinCells, MinCells + 3}

MinerCandidates ==
    {NoMatch} \cup
    [count : {2}, visible : BOOLEAN, cells : MinerCells]

\* lines 192-242: the wait for the table, the row loop, the row class and
\* the cell count
MineRows ==
    /\ pc = "mine"
    /\ calls' = Append(calls, "mineSelectors")
    /\ seen' = Unprobed
    /\ \/ \* line 198 times out, or rowSelectors is not iterable
          /\ mined' = EmptyMined
          /\ rowSel' = 0
          /\ rowCells' = 0
          /\ pc' = "catch"
       \/ /\ loaded.hasRows
          /\ \E page \in [1..loaded.n -> MinerCandidates] :
             \E cls \in {"none", "class", "throw"} :
                /\ doc.pinned => (page = doc.rowPage /\ cls = doc.rowClass)
                /\ LET r == MinerFindRows(page, loaded.n, 1)
                   IN /\ rowSel' = r.found
                      /\ IF r.found = 0
                         THEN \* line 214
                              /\ mined' = EmptyMined
                              /\ rowCells' = 0
                              /\ pc' = "mine_ret"
                         ELSE IF ~page[r.found].visible
                         THEN \* line 218 times out
                              /\ mined' = EmptyMined
                              /\ rowCells' = 0
                              /\ pc' = "catch"
                         ELSE /\ mined' = IF cls = "class"
                                          THEN Put(EmptyMined, "rowClass",
                                                   RowClassNew)
                                          ELSE EmptyMined
                              /\ rowCells' = page[r.found].cells
                              /\ IF page[r.found].cells < MinCells
                                 THEN pc' = "mine_ret"
                                 ELSE pc' = "mine_cells"
    /\ mi' = IF pc' = "mine_cells" THEN 1 ELSE 0
    /\ UNCHANGED <<diskVars, pageVars, valVars, updVars, attempt, again,
                   resVars, genVars, monVars,
                   scrVars>>

\* lines 258-342: one iteration of the loop over cellMapping
MineCell ==
    /\ pc = "mine_cells"
    /\ mi \in 1..Len(cellMapping)
    /\ LET cellIndex == cellMapping[mi].index
           cellType == cellMapping[mi].type
       IN IF cellIndex < rowCells
          THEN \E a \in CellAnswers(cellType) :
                  /\ doc.pinned => a = doc.cell[cellType]
                  /\ mined' = CellResult(mined, cellType, a)
                  /\ seen' = [seen EXCEPT ![cellType] = a]
                  /\ mi' = NextCell(mi, a)
          ELSE /\ mined' = mined
               /\ seen' = seen
               /\ mi' = mi + 1
    /\ pc' = IF mi' > Len(cellMapping) THEN "mine_ret" ELSE "mine_cells"
    /\ UNCHANGED <<diskVars, pageVars, rowSel, rowCells, valVars, updVars,
                   ctlVars, resVars, genVars, monVars,
                   scrVars>>

----------------------------------------------------------------------------
(* The crawler's request handler *)

\* line 547
maxRequestRetries == 2

\* line 569: more than this many keys are needed to go on to validation
MinKeys == 3

\* lines 550-557: a fresh run of the handler; handleLogin
HandleLogin ==
    /\ pc = "start"
    /\ calls' = <<"handleLogin">>
    /\ pc' \in {"nav", "catch"}
    /\ UNCHANGED <<diskVars, pageVars, mineVars, valVars, updVars, attempt,
                   again, resVars, genVars, monVars,
                   scrVars>>

\* lines 559-564: page.goto and the settling wait
Navigate ==
    /\ pc = "nav"
    /\ pc' \in {"mine", "catch"}
    /\ UNCHANGED <<diskVars, pageVars, mineVars, valVars, updVars, ctlVars,
                   resVars, genVars, monVars,
                   scrVars>>

\* lines 566-571: mineSelectors has returned; the gate on the number of keys
HandlerGate ==
    /\ pc = "mine_ret"
    /\ IF Cardinality(DOMAIN mined) > MinKeys
       THEN /\ pc' = "validate"
            /\ calls' = Append(calls, "validateSelectors")
       ELSE /\ pc' = "done"
            /\ calls' = calls
    /\ UNCHANGED <<diskVars, pageVars, mineVars, valVars, updVars, attempt,
                   again, resVars, genVars, monVars,
                   scrVars>>

\* lines 571-578: validateSelectors has returned
HandlerDecide ==
    /\ pc = "validated"
    /\ IF isValid
       THEN /\ pc' = "upd_backup"
            /\ calls' = Append(calls, "updateSelectors")
       ELSE /\ pc' = "done"
            /\ calls' = calls
    /\ changed' = 0
    /\ changes' = <<>>
    /\ UNCHANGED <<diskVars, pageVars, mineVars, valVars, attempt, again,
                   resVars, genVars, monVars,
                   scrVars>>

\* lines 573-582: updateSelectors has returned
HandlerComplete ==
    /\ pc = "upd_ret"
    /\ pc' = "done"
    /\ UNCHANGED <<diskVars, pageVars, mineVars, valVars, updVars, ctlVars,
                   resVars, genVars, monVars,
                   scrVars>>

\* lines 583-586: the catch block rethrows; the crawler retries the request
\* up to maxRequestRetries times, each retry running the handler afresh
HandlerCatch ==
    /\ pc \in {"catch", "upd_throw"}
    /\ IF attempt < maxRequestRetries
       THEN /\ attempt' = attempt + 1
            /\ pc' = "start"
            /\ mined' = EmptyMined
            /\ seen' = Unprobed
            /\ mi' = 0
            /\ rowSel' = 0
            /\ rowCells' = 0
            /\ totalCount' = 0
            /\ validCount' = 0
            /\ isValid' = FALSE
            /\ changed' = 0
            /\ changes' = <<>>
            /\ calls' = <<>>
       ELSE /\ pc' = "failed"
            /\ UNCHANGED <<attempt, mineVars, valVars, updVars, calls>>
    /\ UNCHANGED <<diskVars, pageVars, again, resVars, genVars, monVars,
                   scrVars>>

----------------------------------------------------------------------------
(* findBestSelector *)

\* c.startsWith('zp_')
StartsWithZp(c) == Len(c) >= 3 /\ c[1] = "z" /\ c[2] = "p" /\ c[3] = "_"

\* line 109: the zp_ classes of more than 6 characters
ZpClasses(classes) ==
    SelectSeq(classes, LAMBDA c : StartsWithZp(c) /\ Len(c) > 6)

\* line 113: zpClasses.sort((a, b) => b.length - a.length)[0]; the sort is
\* stable, so of several longest classes the first of the list is taken
PrimaryClass(zpClasses) ==
    LET longest == {i \in 1..Len(zpClasses) :
                      \A j \in 1..Len(zpClasses) :
                          Len(zpClasses[j]) <= Len(zpClasses[i])}
    IN zpClasses[CHOOSE i \in longest : \A j \in longest : i <= j]

\* line 127: classes.find(c => c.startsWith('zp_') && c !== primaryClass)
SecondaryClass(classes, primaryClass) ==
    LET others == SelectSeq(classes,
                     LAMBDA c : StartsWithZp(c) /\ c /= primaryClass)
    IN IF others = <<>> THEN Null ELSE others[1]

\* list.join('.')
RECURSIVE JoinDot(_)
JoinDot(list) ==
    IF list = <<>> THEN <<>>
    ELSE IF Len(list) = 1 THEN list[1]
    ELSE list[1] \o <<".">> \o JoinDot(Tail(list))

\* element.id.includes(':')
HasColon(id) == \E i \in 1..Len(id) : id[i] = ":"

\* lines 99-102
Priority1(element) ==
    IF element.testid /= <<>>
    THEN element.tag \o <<"[", DQ>> \o element.testid \o <<DQ, "]">>
    ELSE Null

\* lines 104-107
Priority2(element) ==
    IF element.id /= <<>> /\ ~HasColon(element.id)
    THEN <<"#">> \o element.id
    ELSE Null

\* lines 109-131; sibs: the classes found on the other children of the parent
Priority3(element) ==
    LET zpClasses == ZpClasses(element.classes)
    IN IF Len(zpClasses) > 0
       THEN LET primaryClass == PrimaryClass(zpClasses)
            IN IF primaryClass \notin element.sibs
               THEN element.tag \o <<".">> \o primaryClass
               ELSE LET secondaryClass ==
                            SecondaryClass(element.classes, primaryClass)
                    IN IF secondaryClass /= Null
                       THEN element.tag \o <<".">> \o primaryClass
                                \o <<".">> \o secondaryClass
                       ELSE Null
       ELSE Null

\* lines 133-141
Priority4(element) ==
    IF element.role /= <<>>
    THEN LET classes == JoinDot(SelectSeq(element.classes, StartsWithZp))
         IN IF classes /= <<>>
            THEN element.tag \o <<"[", "r", "=", DQ>> \o element.role
                     \o <<DQ, "]", ".">> \o classes
            ELSE Null
    ELSE Null

\* the rules with the id tried before the data-testid
generateSelectorIdFirst(element) ==
    IF Priority2(element) /= Null THEN Priority2(element)
    ELSE IF Priority1(element) /= Null THEN Priority1(element)
    ELSE IF Priority3(element) /= Null THEN Priority3(element)
    ELSE Priority4(element)

\* lines 97-144
generateSelector(element) ==
    IF Priority1(element) /= Null THEN Priority1(element)
    ELSE IF Priority2(element) /= Null THEN Priority2(element)
    ELSE IF Priority3(element) /= Null THEN Priority3(element)
    ELSE Priority4(element)

\* line 152: the bound of the loop over the element and its parents
MaxLevels == 3

\* lines 147-158: currentEl is chain[i + 1]; past the root it is null
RECURSIVE WalkUp(_, _)
WalkUp(chain, i) ==
    IF i < MaxLevels /\ i + 1 <= Len(chain)
    THEN LET found == generateSelector(chain[i + 1])
         IN IF found /= Null THEN found ELSE WalkUp(chain, i + 1)
    ELSE Null

\* lines 93-163: the value of the evaluate call
FindBestSelector ==
    /\ pc = "gen"
    /\ selector' = WalkUp(el, 0)
    /\ pc' = "gen_ret"
    /\ UNCHANGED <<diskVars, pageVars, mineVars, valVars, updVars, ctlVars,
                   resVars, el, monVars,
                   scrVars>>

\* lines 160-162: evaluate throws (the handle is stale), null is returned
FindBestSelectorCaught ==
    /\ pc = "gen"
    /\ selector' = Null
    /\ pc' = "gen_caught"
    /\ UNCHANGED <<diskVars, pageVars, mineVars, valVars, updVars, ctlVars,
                   resVars, el, monVars,
                   scrVars>>

\* lines 222-228: classes.find(c => c.startsWith('zp_') && c.length > 10),
\* and the locator made of it
RowClass(classes) ==
    LET found == SelectSeq(classes,
                    LAMBDA c : StartsWithZp(c) /\ Len(c) > 10)
    IN IF found = <<>> THEN Null ELSE <<"d", ".">> \o found[1]

\* lines 220-233 on the row element el[1]: the row class that goes into
\* `mined`; when the evaluate call throws there is none
MineRowClass ==
    /\ pc = "rowclass"
    /\ \/ /\ selector' = RowClass(el[1].classes)
          /\ pc' = "rowclass_ret"
       \/ /\ selector' = Null
          /\ pc' = "rowclass_caught"
    /\ UNCHANGED <<diskVars, pageVars, mineVars, valVars, updVars, ctlVars,
                   resVars, el, monVars,
                   scrVars>>

----------------------------------------------------------------------------
(* The monitor's report *)

\* text.includes(pat)
Includes(text, pat) ==
    \E i \in 0..(Len(text) - Len(pat)) :
        \A j \in 1..Len(pat) : text[i + j] = pat[j]

\* Descriptions the monitor gives its probes (shortened; each keeps or
\* lacks the letters r, o, w in a row, as the description it stands for)
\* 'Data table rows (Check if data loaded)', line 1027
DescRows == <<"r", "o", "w", "s">>
\* 'Table cells in first row', line 1035
DescCells == <<"c", "e", "l", "l", "s", " ", "r", "o", "w">>
\* 'Next page button', line 1132
DescNext == <<"n", "e", "x", "t">>

NoReport == [passed |-> 0, failed |-> 0, warnings |-> 0, lines |-> <<>>]

\* no report file and no error file written yet; a file written is a
\* sequence of one element, its content
NoWrites == [report |-> <<>>, error |-> <<>>]

\* lines 835-855: one result of a category
ReportResult(acc, result) ==
    LET counted == IF result.exists
                   THEN [acc EXCEPT !.passed = @ + 1]
                   ELSE [acc EXCEPT !.failed = @ + 1]
        line == [description |-> result.description, ok |-> result.exists,
                 warning |-> FALSE]
    IN IF result.exists /\ result.count > 0 /\ result.count < 5
            /\ Includes(result.description, <<"r", "o", "w">>)
       THEN [counted EXCEPT !.warnings = @ + 1,
                            !.lines = Append(@, [line EXCEPT !.warning = TRUE])]
       ELSE [counted EXCEPT !.lines = Append(@, line)]

\* lines 834-856: the loop over the results of one category
RECURSIVE ReportCategory(_, _, _)
ReportCategory(acc, list, i) ==
    IF i > Len(list) THEN acc
    ELSE ReportCategory(ReportResult(acc, list[i]), list, i + 1)

\* lines 830-857: the loop over the categories
RECURSIVE ReportLoop(_, _, _)
ReportLoop(acc, cats, i) ==
    IF i > Len(cats) THEN acc
    ELSE ReportLoop(ReportCategory(acc, cats[i].results, 1), cats, i + 1)

\* line 864: ((passed / (passed + failed)) * 100).toFixed(1), in tenths of
\* a percent; 0 / 0 is NaN
SuccessRate(passed, failed) ==
    IF passed + failed = 0 THEN "NaN"
    ELSE (2000 * passed + (passed + failed)) \div (2 * (passed + failed))

\* lines 821-870
GenerateReport ==
    /\ pc = "report"
    /\ LET acc == ReportLoop(NoReport, results, 1)
       IN report' = [passed |-> acc.passed, failed |-> acc.failed,
                     warnings |-> acc.warnings, lines |-> acc.lines,
                     rate |-> SuccessRate(acc.passed, acc.failed)]
    /\ pc' = "reported"
    /\ UNCHANGED <<diskVars, pageVars, mineVars, valVars, updVars, ctlVars,
                   resVars, genVars, results, logged, written,
                   scrVars>>

----------------------------------------------------------------------------
(* The monitor's request handler and monitorSelectors *)

\* results.flatMap(cat => cat.results), line 804
RECURSIVE FlatResults(_)
FlatResults(cats) ==
    IF cats = <<>> THEN <<>>
    ELSE Head(cats).results \o FlatResults(Tail(cats))

\* Descriptions of the other probes, shortened like the ones above:
\* 'Email input field' (line 979), 'Password input field' (980), 'Login
\* submit button' (981), 'Main app container' (1004, 1006), 'Modal popups'
\* (1010), 'First data row located, but not found.' (1037), 'Insufficient
\* cells found in first row (Expected >= 10)' (1124), the nine mapping
\* checks (1048-1121), 'Page number input' (1133)
Desc ==
    [emailInput |-> <<"e", "m", "a", "i", "l">>,
     passwordInput |-> <<"p", "a", "s", "s">>,
     submit |-> <<"s", "u", "b", "m", "i", "t">>,
     mainApp |-> <<"a", "p", "p">>,
     modals |-> <<"m", "o", "d", "a", "l", "s">>,
     rowGone |-> <<"d", "a", "t", "a", " ", "r", "o", "w">>,
     insufficient |-> <<"f", "e", "w", " ", "c", "e", "l", "l", "s", " ", "r", "o", "w">>,
     name |-> <<"n", "a", "m", "e">>,
     jobTitle |-> <<"j", "o", "b">>,
     company |-> <<"c", "o", "m", "p", "a", "n", "y">>,
     emailField |-> <<"e", "m", "a", "i", "l", " ", "4">>,
     phone |-> <<"p", "h", "o", "n", "e">>,
     linkedInLink |-> <<"l", "i", "n", "k">>,
     location |-> <<"l", "o", "c">>,
     employees |-> <<"e", "m", "p">>,
     niche |-> <<"n", "i", "c", "h", "e">>,
     pageInput |-> <<"p", "a", "g", "e">>]

\* lines 720-728 and 730-741: what a probe returns when the wait found the
\* selector with n matches, and when it timed out
ProbeResult(description, found, n) ==
    IF found THEN [description |-> description, exists |-> TRUE, count |-> n]
    ELSE [description |-> description, exists |-> FALSE, count |-> 0]

\* lines 743-758: locator.waitFor() resolves to undefined, so
\* targetElement.textContent() throws a TypeError inside the try and the
\* catch returns exists: false, whatever the cell holds
CheckTextContentFromElement == [exists |-> FALSE, hasText |-> FALSE]

\* lines 1048-1054: a mapping check built from checkTextContentFromElement
MappingCheck(description) ==
    [description |-> description,
     exists |-> CheckTextContentFromElement.exists,
     count |-> IF CheckTextContentFromElement.exists THEN 1 ELSE 0]

\* lines 1075-1092: the checks that combine two selectors
MappingCheckTwo(description) ==
    [description |-> description,
     exists |-> CheckTextContentFromElement.exists
                    \/ CheckTextContentFromElement.exists,
     count |-> (IF CheckTextContentFromElement.exists THEN 1 ELSE 0)
                 + (IF CheckTextContentFromElement.exists THEN 1 ELSE 0)]

\* line 1140
monitorRetries == 1
\* line 1046
MonitorMinCells == 10
\* line 808
FailureThreshold == 3

\* lines 1046-1125: the mapping checks of a first row of k cells;
\* cells[12] is undefined in a row of fewer than 13 cells and testSelector
\* catches the TypeError
FieldChecks(k, linkedIn, niche) ==
    IF k >= MonitorMinCells
    THEN << MappingCheck(Desc.name), MappingCheck(Desc.jobTitle),
            MappingCheck(Desc.company), MappingCheckTwo(Desc.emailField),
            MappingCheckTwo(Desc.phone),
            [description |-> Desc.linkedInLink, exists |-> linkedIn,
             count |-> IF linkedIn THEN 1 ELSE 0],
            MappingCheck(Desc.location), MappingCheck(Desc.employees),
            ProbeResult(Desc.niche, k > 12 /\ niche, 1) >>
    ELSE << [description |-> Desc.insufficient, exists |-> FALSE, count |-> k] >>

\* lines 1022-1126: tableResults for a page on which the row selectors
\* find n rows (0: none), the first row is still there or gone, and it has
\* k cells
TableResults(n, gone, k, linkedIn, niche) ==
    LET rowResult == ProbeResult(DescRows, n > 0, n)
    IN IF ~rowResult.exists THEN <<rowResult>>
       ELSE <<rowResult>>
              \o (IF gone
                  THEN << [description |-> Desc.rowGone, exists |-> FALSE,
                           count |-> 0] >>
                  ELSE << ProbeResult(DescCells, k > 0, k) >>)
              \o FieldChecks(k, linkedIn, niche)

\* row counts and cell counts of the pages the monitor is run on
RowCounts == {0, 5}
CellCounts == {9, 13}

\* the first rows a page can show: <<gone, k, linkedIn, niche>>
FirstRows ==
    {<<TRUE, 0, FALSE, FALSE>>}
      \cup {<<FALSE, k, FALSE, FALSE>> : k \in {c \in CellCounts : c < MonitorMinCells}}
      \cup {<<FALSE, k, l, FALSE>> :
               k \in {c \in CellCounts : c >= MonitorMinCells /\ c <= 12},
               l \in BOOLEAN}
      \cup {<<FALSE, k, l, t>> :
               k \in {c \in CellCounts : c > 12}, l \in BOOLEAN, t \in BOOLEAN}

\* lines 970-998: the login page category, then the login itself; page.goto
\* throws when the navigation fails, page.fill when the input it waits for
\* never appears
MonitorLogin ==
    /\ pc = "mon_start"
    /\ \/ /\ pc' = "mon_throw"
          /\ UNCHANGED results
       \/ \E e \in BOOLEAN, p \in BOOLEAN, s \in BOOLEAN, filled \in BOOLEAN :
            /\ (e /\ p) => filled
            /\ results' = Append(results,
                   [category |-> "LOGIN PAGE",
                    results |-> << ProbeResult(Desc.emailInput, e, 1),
                                   ProbeResult(Desc.passwordInput, p, 1),
                                   ProbeResult(Desc.submit, s, 1) >>])
            /\ pc' = IF filled THEN "mon_post" ELSE "mon_throw"
    /\ UNCHANGED <<diskVars, pageVars, mineVars, valVars, updVars, ctlVars,
                   resVars, genVars, report, logged, written,
                   scrVars>>

\* lines 1000-1020: the post-login category; the error handlePreScrapeChecks
\* throws when the main app container never appears is caught and recorded
\* as a failed probe; then the navigation to the target page
MonitorPostLogin ==
    /\ pc = "mon_post"
    /\ \E app \in BOOLEAN, modal \in BOOLEAN :
          results' = Append(results,
              [category |-> "POST-LOGIN",
               results |-> << [description |-> Desc.mainApp, exists |-> app,
                               count |-> IF app THEN 1 ELSE 0],
                              ProbeResult(Desc.modals, modal, 1) >>])
    /\ pc' \in {"mon_table", "mon_throw"}
    /\ UNCHANGED <<diskVars, pageVars, mineVars, valVars, updVars, ctlVars,
                   resVars, genVars, report, logged, written,
                   scrVars>>

\* lines 1022-1128: the data table category
MonitorTable ==
    /\ pc = "mon_table"
    /\ \E n \in RowCounts, r \in FirstRows :
          results' = Append(results,
              [category |-> "DATA TABLE",
               results |-> TableResults(n, r[1], r[2], r[3], r[4])])
    /\ pc' = "mon_nav"
    /\ UNCHANGED <<diskVars, pageVars, mineVars, valVars, updVars, ctlVars,
                   resVars, genVars, report, logged, written,
                   scrVars>>

\* lines 1130-1137: the navigation category; the handler returns
MonitorNavigation ==
    /\ pc = "mon_nav"
    /\ \E nextButton \in BOOLEAN, pageInput \in BOOLEAN :
          results' = Append(results,
              [category |-> "NAVIGATION",
               results |-> << ProbeResult(DescNext, nextButton, 1),
                              ProbeResult(Desc.pageInput, pageInput, 1) >>])
    /\ pc' = "mon_ok"
    /\ UNCHANGED <<diskVars, pageVars, mineVars, valVars, updVars, ctlVars,
                   resVars, genVars, report, logged, written,
                   scrVars>>

\* line 1140: the crawler calls the handler again for a request whose
\* handler threw, maxRequestRetries times; `results` (line 915) is declared
\* outside the handler and is not reset
MonitorRetry ==
    /\ pc = "mon_throw"
    /\ attempt < monitorRetries
    /\ attempt' = attempt + 1
    /\ pc' = "mon_start"
    /\ UNCHANGED <<diskVars, pageVars, mineVars, valVars, updVars, calls,
                   again, resVars, genVars, monVars,
                   scrVars>>

\* line 1145: crawler.run resolves once the request is handled or has
\* failed for good, and rejects when the crawler itself cannot run
CrawlerRun ==
    /\ \/ /\ pc = "mon_ok" \/ (pc = "mon_throw" /\ attempt >= monitorRetries)
          /\ pc' = "report"
       \/ /\ pc = "mon_start"
          /\ pc' = "mon_error"
    /\ UNCHANGED <<diskVars, pageVars, mineVars, valVars, updVars, ctlVars,
                   resVars, genVars, monVars,
                   scrVars>>

\* lines 803-806
FailedSelectors(rs) ==
    SelectSeq(FlatResults(rs), LAMBDA r : ~r.exists /\ r.count = 0)

\* lines 802-818: the warning is the suggestion to mine; with
\* AUTO_MINE_ON_FAILURE the function logs one more line and starts nothing
HandleSelectorFailures ==
    /\ pc = "reported"
    /\ \E shouldAutoMine \in BOOLEAN :
          logged' = IF Len(FailedSelectors(results)) > FailureThreshold
                 THEN {"suggesting auto-mining"}
                        \cup (IF shouldAutoMine
                              THEN {"Triggering selector miner..."} ELSE {})
                 ELSE {}
    /\ pc' = "handled"
    /\ UNCHANGED <<diskVars, pageVars, mineVars, valVars, updVars, ctlVars,
                   resVars, genVars, results, report, written,
                   scrVars>>

\* lines 1152-1166: the report file, whose write is taken to succeed;
\* sendEmailReport catches its own errors
WriteReport ==
    /\ pc = "handled"
    /\ written' = [written EXCEPT !.report = <<report>>]
    /\ pc' = "mon_done"
    /\ UNCHANGED <<diskVars, pageVars, mineVars, valVars, updVars, ctlVars,
                   resVars, genVars, results, report, logged,
                   scrVars>>

\* an error report that leaves the partial results out
ErrorReportWithoutResults ==
    /\ pc = "mon_error"
    /\ written' = [written EXCEPT !.error = << <<>> >>]
    /\ pc' = "mon_done"
    /\ UNCHANGED <<diskVars, pageVars, mineVars, valVars, updVars, ctlVars,
                   resVars, genVars, results, report, logged,
                   scrVars>>

\* lines 1168-1175: the error report with JSON.stringify(results); the
\* write of this file is taken to succeed
ErrorReport ==
    /\ pc = "mon_error"
    /\ written' = [written EXCEPT !.error = <<results>>]
    /\ pc' = "mon_done"
    /\ UNCHANGED <<diskVars, pageVars, mineVars, valVars, updVars, ctlVars,
                   resVars, genVars, results, report, logged,
                   scrVars>>

----------------------------------------------------------------------------
(* useFallbackSelectors *)

\* { ...base, k: v, ... }: the properties of base, then those written out,
\* which replace the ones of the same name
Spread(base, over) ==
    [k \in DOMAIN base \cup DOMAIN over |->
        IF k \in DOMAIN over THEN over[k] ELSE base[k]]

\* part_002 lines 2-70
RepoSelectors == [current |-> RepoCurrent, fallback |-> RepoFallback]

\* part_002 lines 65-69: the getters
GetLogin(S) == S.current.login
GetTable(S) == S.current.table

\* lines 4-47 of part_000
UseFallbackSelectors ==
    /\ pc = "fallback"
    /\ SELECTORS' = [SELECTORS EXCEPT
                        !.current = Spread(SELECTORS.fallback, HardCodedSections)]
    /\ pc' = "fallback_ret"
    /\ UNCHANGED <<diskVars, loaded, doc, mineVars, valVars, updVars, ctlVars,
                   resVars, genVars, monVars,
                   scrVars>>

----------------------------------------------------------------------------
(* The scraper: persistence and the page loop *)

\* part_001 line 32
MAX_PAGES_TO_SCRAPE == 5
\* part_001 line 563
scraperRetries == 2
\* the store holds no LAST_SCRAPED_PAGE, or holds null (line 284); both are
\* falsy in `lastPage ? lastPage + 1 : 1`, as no page number is
NoPage == 0
\* the mark a run with RESET_SCRAPE leaves in the history of scraped pages
ResetMark == 0

\* part_001 lines 37 and 280-295, at the start of a process: startPage is 1
\* until setupPersistence assigns it, which it does not with RESET_SCRAPE.
\* KeyValueStore.open() purges the default store first when crawlee is
\* configured to purge on start and has not purged yet in this process.
SetupPersistence ==
    /\ pc = "scr_setup"
    /\ \E RESET_SCRAPE \in BOOLEAN, purge \in BOOLEAN :
          LET opened == IF purge THEN NoPage ELSE store
          IN IF RESET_SCRAPE
             THEN /\ store' = NoPage
                  /\ startPage' = startPage
                  /\ scraped' = Append(scraped, ResetMark)
             ELSE /\ store' = opened
                  /\ startPage' = IF opened # NoPage THEN opened + 1 ELSE 1
                  /\ scraped' = scraped
    /\ pc' = "scr_login"
    /\ UNCHANGED <<diskVars, pageVars, mineVars, valVars, updVars, ctlVars,
                   resVars, genVars, monVars, pageNum, run>>

\* part_001 lines 489-525: the login, which throws when a step of it times
\* out, then the first value of pageNum
ScraperLogin ==
    /\ pc = "scr_login"
    /\ \/ /\ pc' = "scr_throw"
          /\ pageNum' = pageNum
       \/ /\ pc' = "scr_page"
          /\ pageNum' = startPage
    /\ UNCHANGED <<diskVars, pageVars, mineVars, valVars, updVars, ctlVars,
                   resVars, genVars, monVars, store, startPage, scraped, run>>

\* part_001 lines 524-556: one turn of the loop, or its end
ScrapePage ==
    /\ pc = "scr_page"
    /\ IF pageNum < startPage + MAX_PAGES_TO_SCRAPE
       THEN \/ \* page.goto or scrapeCurrentPage throws: break
               /\ pc' = "scr_ret"
               /\ UNCHANGED <<store, pageNum, scraped>>
            \/ \* scrapeCurrentPage returns, then the progress is saved
               /\ scraped' = Append(scraped, pageNum)
               /\ \/ /\ store' = pageNum
                     /\ pageNum' = pageNum + 1
                     /\ pc' = "scr_page"
                  \/ \* KeyValueStore.setValue throws: break
                     /\ pc' = "scr_ret"
                     /\ UNCHANGED <<store, pageNum>>
       ELSE /\ pc' = "scr_ret"
            /\ UNCHANGED <<store, pageNum, scraped>>
    /\ UNCHANGED <<diskVars, pageVars, mineVars, valVars, updVars, ctlVars,
                   resVars, genVars, monVars, startPage, run>>

\* part_001 line 563: the crawler calls the handler again when it threw
ScraperRetry ==
    /\ pc = "scr_throw"
    /\ IF attempt < scraperRetries
       THEN /\ attempt' = attempt + 1
            /\ pc' = "scr_login"
       ELSE /\ attempt' = attempt
            /\ pc' = "scr_ret"
    /\ UNCHANGED <<diskVars, pageVars, mineVars, valVars, updVars, calls,
                   again, resVars, genVars, monVars, scrVars>>

\* number of consecutive runs of the scraper
MaxRuns == 3

\* part_001 lines 567-642: crawler.run has resolved and runCrawler ends; the
\* scraper is then started again, a new process
NextRun ==
    /\ pc = "scr_ret"
    /\ run < MaxRuns
    /\ run' = run + 1
    /\ startPage' = 1
    /\ attempt' = 0
    /\ pc' = "scr_setup"
    /\ UNCHANGED <<diskVars, pageVars, mineVars, valVars, updVars, calls,
                   again, resVars, genVars, monVars, store, pageNum, scraped>>

----------------------------------------------------------------------------
(* Specifications *)

\* SELECTORS.table.rowSelectors as the import of selectors.ts evaluates it
\* (the `table` getter returns current.table, part_002 lines 65-69)
Loaded(f) == [hasRows |-> f.table.hasRows, n |-> Len(f.table.rows)]

\* objects of more than MinKeys keys, the ones the handler lets through
UpdaterInputs ==
    {m \in ObjectsFrom(1) : Producible(m) /\ Cardinality(DOMAIN m) > MinKeys}

Idle ==
    /\ backup = NoFile
    /\ seen = Unprobed
    /\ mi = 0
    /\ rowSel = 0
    /\ rowCells = 0
    /\ attempt = 0
    /\ calls = <<>>
    /\ totalCount = 0
    /\ validCount = 0
    /\ changed = 0
    /\ changes = <<>>
    /\ again = FALSE
    /\ res = NoRes
    /\ selector = Null
    /\ report = NoReport
    /\ logged = {}
    /\ written = NoWrites
    /\ store = NoPage
    /\ startPage = 1
    /\ pageNum = 0
    /\ scraped = <<>>
    /\ run = 1

\* updateSelectors alone, called once and once more with the same object
InitUpdater ==
    /\ Idle
    /\ file \in InitFiles \cup {NoFile}
    /\ loaded = Loaded(RepoFile)
    /\ SELECTORS = RepoSelectors
    /\ doc = LivePage
    /\ rowPage = <<>>
    /\ results = <<>>
    /\ el = <<>>
    /\ mined \in UpdaterInputs
    /\ isValid = TRUE
    /\ pc = "upd_backup"

CallAgain ==
    /\ pc = "upd_ret"
    /\ ~again
    /\ again' = TRUE
    /\ pc' = "upd_backup"
    /\ changed' = 0
    /\ changes' = <<>>
    /\ res' = NoRes
    /\ UNCHANGED <<diskVars, pageVars, mineVars, valVars, attempt, calls,
                   rowPage, genVars, monVars,
                   scrVars>>

NextUpdater == UpdateBackup \/ UpdateApply \/ TestUpdatedSelectors \/ CallAgain

SpecUpdater == InitUpdater /\ [][NextUpdater]_vars

\* validateSelectors alone
InitValidator ==
    /\ Idle
    /\ file = RepoFile
    /\ loaded = Loaded(RepoFile)
    /\ SELECTORS = RepoSelectors
    /\ doc = LivePage
    /\ rowPage = <<>>
    /\ results = <<>>
    /\ el = <<>>
    /\ mined \in UpdaterInputs
    /\ isValid = FALSE
    /\ pc = "validate"

NextValidator == ValidateSelectors

SpecValidator == InitValidator /\ [][NextValidator]_vars

\* largest number of candidates in a list that is resolved
MaxCandidates == 3

ResolveCandidates ==
    {NoMatch} \cup
    [count : {2, 5}, visible : BOOLEAN, cells : {MinCells - 1, MinCells}]

ResolvePages ==
    UNION {[1..n -> ResolveCandidates] : n \in 1..MaxCandidates}

\* candidate resolution alone, as the miner, the scraper and the monitor do it
InitResolve ==
    /\ Idle
    /\ file = RepoFile
    /\ loaded = Loaded(RepoFile)
    /\ SELECTORS = RepoSelectors
    /\ doc = LivePage
    /\ rowPage \in ResolvePages
    /\ results = <<>>
    /\ el = <<>>
    /\ mined = EmptyMined
    /\ isValid = FALSE
    /\ pc = "resolve"

NextResolve == ResolveMiner \/ ResolveScraper \/ ResolveMonitor

SpecResolve == InitResolve /\ [][NextResolve]_vars

\* mineSelectors alone, on a page of which nothing is fixed in advance
InitMiner ==
    /\ Idle
    /\ file \in {RepoFile, MkFile("flat", ShortTable), MkFile("flat", NoRowsTable)}
    /\ loaded = Loaded(file)
    /\ SELECTORS = RepoSelectors
    /\ doc = LivePage
    /\ rowPage = <<>>
    /\ results = <<>>
    /\ el = <<>>
    /\ mined = EmptyMined
    /\ isValid = FALSE
    /\ pc = "mine"

NextMiner == MineRows \/ MineCell

SpecMiner == InitMiner /\ [][NextMiner]_vars

\* Elements findBestSelector is handed
ZpLong == <<"z", "p", "_", "a", "b", "c", "d", "e", "f", "g", "h">>
ZpMid == <<"z", "p", "_", "m", "n", "o", "q">>
ZpTie == <<"z", "p", "_", "t", "u", "v", "w">>
ZpShort == <<"z", "p", "_", "x">>
PlainClass == <<"r", "o", "w">>
ClassNames == {ZpLong, ZpMid, ZpTie, ZpShort, PlainClass}

\* largest number of classes on an element
MaxClasses == 3

ClassLists ==
    {l \in UNION {[1..n -> ClassNames] : n \in 0..MaxClasses} :
        \A i, j \in 1..Len(l) : i /= j => l[i] /= l[j]}

Elements ==
    [tag : {<<"s">>},
     testid : {<<>>, <<"n">>},
     id : {<<>>, <<"x">>, <<"r", ":", "1">>},
     classes : ClassLists,
     role : {<<>>, <<"g">>},
     sibs : SUBSET {ZpLong, ZpMid, ZpTie}]

\* an element no rule yields a locator for, and elements one rule does
BareElement ==
    [tag |-> <<"d">>, testid |-> <<>>, id |-> <<>>, classes |-> <<>>,
     role |-> <<>>, sibs |-> {}]
ChainElements ==
    {BareElement,
     [BareElement EXCEPT !.testid = <<"n">>],
     [BareElement EXCEPT !.classes = <<ZpMid>>]}

\* largest number of elements from the element handed in up to the root
MaxDepth == 5

Chains ==
    {<<e>> : e \in Elements}
        \cup UNION {[1..n -> ChainElements] : n \in 2..MaxDepth}

\* findBestSelector alone
InitGenerator ==
    /\ Idle
    /\ file = RepoFile
    /\ loaded = Loaded(RepoFile)
    /\ SELECTORS = RepoSelectors
    /\ doc = LivePage
    /\ rowPage = <<>>
    /\ results = <<>>
    /\ el \in Chains
    /\ mined = EmptyMined
    /\ isValid = FALSE
    /\ pc = "gen"

NextGenerator == FindBestSelector \/ FindBestSelectorCaught

SpecGenerator == InitGenerator /\ [][NextGenerator]_vars

\* Row elements whose class is mined
ZpLonger == <<"z", "p", "_", "a", "b", "c", "d", "e", "f", "g", "h", "i", "j">>
PlainLong == <<"r", "o", "w", "-", "s", "e", "l", "e", "c", "t", "e", "d">>
RowClassNames == {ZpLong, ZpLonger, ZpMid, PlainClass, PlainLong}

RowElements ==
    {[BareElement EXCEPT !.classes = l, !.role = <<"g">>] :
        l \in {c \in UNION {[1..n -> RowClassNames] : n \in 0..MaxClasses} :
                  \A i, j \in 1..Len(c) : i /= j => c[i] /= c[j]}}

\* the mining of the row class alone
InitRowClass ==
    /\ Idle
    /\ file = RepoFile
    /\ loaded = Loaded(RepoFile)
    /\ SELECTORS = RepoSelectors
    /\ doc = LivePage
    /\ rowPage = <<>>
    /\ results = <<>>
    /\ el \in {<<e>> : e \in RowElements}
    /\ mined = EmptyMined
    /\ isValid = FALSE
    /\ pc = "rowclass"

NextRowClass == MineRowClass

SpecRowClass == InitRowClass /\ [][NextRowClass]_vars

\* Probe results the monitor collects
ProbeResults ==
    [description : {DescRows, DescCells, DescNext},
     exists : BOOLEAN,
     count : {0, 4, 5}]

\* largest number of probe results in a category
MaxProbes == 3

ProbeLists(n) == UNION {[1..k -> ProbeResults] : k \in 0..n}

ReportInputs ==
    {<<>>}
      \cup {<<[category |-> "DATA TABLE", results |-> l]>> :
               l \in ProbeLists(MaxProbes)}
      \cup {<<[category |-> "DATA TABLE", results |-> l],
              [category |-> "NAVIGATION", results |-> m]>> :
               l \in ProbeLists(1), m \in ProbeLists(1)}

\* generateReport alone
InitReport ==
    /\ Idle
    /\ file = RepoFile
    /\ loaded = Loaded(RepoFile)
    /\ SELECTORS = RepoSelectors
    /\ doc = LivePage
    /\ rowPage = <<>>
    /\ el = <<>>
    /\ results \in ReportInputs
    /\ mined = EmptyMined
    /\ isValid = FALSE
    /\ pc = "report"

NextReport == GenerateReport

SpecReport == InitReport /\ [][NextReport]_vars

\* Fallback variants a selectors.ts can hold
FallbackVariants ==
    {Spread(
        [login |-> [RepoFallback.login EXCEPT !.submitButton = sb],
         table |-> [RepoFallback.table EXCEPT !.rowSelectors = rs,
                                              !.cell = c, !.name = nm]],
        extra) :
        sb \in {RepoFallback.login.submitButton, "input[type=\"submit\"]"},
        rs \in {RepoFallback.table.rowSelectors, <<"tr">>,
                <<"div[role=\"row\"]", "tr">>},
        c \in {RepoFallback.table.cell, "td"},
        nm \in {RepoFallback.table.name, "td a"},
        extra \in {<<>>, [navigation |-> [nextButton |-> "a.next"]]}}

\* Current variants: the one of the repository, and one the miner updated
CurrentVariants ==
    {RepoCurrent,
     [RepoCurrent EXCEPT !.table.rowSelectors[2] = "div.zp_AbCdEfGhIjK",
                         !.table.name = "a.zp_NaMeNaMe"]}

\* useFallbackSelectors alone
InitFallback ==
    /\ Idle
    /\ file = RepoFile
    /\ loaded = Loaded(RepoFile)
    /\ SELECTORS \in [current : CurrentVariants, fallback : FallbackVariants]
    /\ doc = LivePage
    /\ rowPage = <<>>
    /\ el = <<>>
    /\ results = <<>>
    /\ mined = EmptyMined
    /\ isValid = FALSE
    /\ pc = "fallback"

NextFallback == UseFallbackSelectors

SpecFallback == InitFallback /\ [][NextFallback]_vars

\* the scraper, run after run, the first on an empty store
InitScraper ==
    /\ Idle
    /\ file = RepoFile
    /\ loaded = Loaded(RepoFile)
    /\ SELECTORS = RepoSelectors
    /\ doc = LivePage
    /\ rowPage = <<>>
    /\ el = <<>>
    /\ results = <<>>
    /\ mined = EmptyMined
    /\ isValid = FALSE
    /\ pc = "scr_setup"

NextScraper ==
    \/ SetupPersistence
    \/ ScraperLogin
    \/ ScrapePage
    \/ ScraperRetry
    \/ NextRun

SpecScraper == InitScraper /\ [][NextScraper]_vars

\* monitorSelectors, from the start of the crawler to the report
InitMonitor ==
    /\ Idle
    /\ file = RepoFile
    /\ loaded = Loaded(RepoFile)
    /\ SELECTORS = RepoSelectors
    /\ doc = LivePage
    /\ rowPage = <<>>
    /\ el = <<>>
    /\ results = <<>>
    /\ mined = EmptyMined
    /\ isValid = FALSE
    /\ pc = "mon_start"

NextMonitor ==
    \/ MonitorLogin
    \/ MonitorPostLogin
    \/ MonitorTable
    \/ MonitorNavigation
    \/ MonitorRetry
    \/ CrawlerRun
    \/ GenerateReport
    \/ HandleSelectorFailures
    \/ WriteReport
    \/ ErrorReport

SpecMonitor == InitMonitor /\ [][NextMonitor]_vars

\* every wait of the handler has a timeout and the crawler calls the
\* handler for as long as the request is pending, so monitorSelectors keeps
\* taking steps until it returns
SpecMonitorLive == SpecMonitor /\ WF_vars(NextMonitor)

\* Documents a whole mining pass is run against: the first n mapped cells
\* answer with a locator, the others with nothing
DocCells(n, emailAnswer, phoneAnswer) ==
    [f \in MappedFields |->
        LET i == CHOOSE j \in 1..Len(cellMapping) : cellMapping[j].type = f
        IN IF i > n THEN "none"
           ELSE CASE f = "name" -> "anchorSpan"
                  [] f = "email" -> emailAnswer
                  [] f = "phoneRequestLink" -> phoneAnswer
                  [] f = "linkedIn" -> "link"
                  [] OTHER -> "sel"]

PassCandidates ==
    {NoMatch,
     [count |-> 2, visible |-> TRUE, cells |-> MinCells - 1],
     [count |-> 2, visible |-> TRUE, cells |-> MinCells + 3]}

PassDocs(n) ==
    [pinned : {TRUE},
     rowPage : [1..n -> PassCandidates],
     rowClass : {"none", "class"},
     cell : {DocCells(k, a[1], a[2]) :
                k \in 0..Len(cellMapping),
                a \in {<<"span", "request">>, <<"spanAccess", "visible">>,
                       <<"span", "visibleNoSel">>}}]

PassFiles ==
    {RepoFile, MkFile("flat", RepoTable), MkFile("flat", ShortTable)}

\* The miner process: the crawler runs the request handler on the one
\* request, retrying it when the handler throws
Init ==
    /\ Idle
    /\ file \in PassFiles
    /\ loaded = Loaded(file)
    /\ SELECTORS = RepoSelectors
    /\ doc \in PassDocs(loaded.n)
    /\ rowPage = <<>>
    /\ results = <<>>
    /\ el = <<>>
    /\ mined = EmptyMined
    /\ isValid = FALSE
    /\ pc = "start"

Next ==
    \/ HandleLogin
    \/ Navigate
    \/ MineRows
    \/ MineCell
    \/ HandlerGate
    \/ ValidateSelectors
    \/ HandlerDecide
    \/ UpdateBackup
    \/ UpdateApply
    \/ TestUpdatedSelectors
    \/ HandlerComplete
    \/ HandlerCatch

Spec == Init /\ [][Next]_vars

----------------------------------------------------------------------------
(* Claims *)

\* C1: a second run of updateSelectors on the same accepted object, right
\* after a first run that returned, records no change.
C1_SecondRunRecordsNothing ==
    (again /\ pc \in {"upd_test", "upd_ret", "upd_throw"}) => changed = 0

\* The rows of selectors.ts after a row-class update, against those before
RowsPreserved(old, new, rowClass) ==
    /\ Len(old) >= 2
    /\ Len(new) >= 3
    /\ Len(new) >= Len(old)
    /\ new[1] = old[1]
    /\ new[2] = Literal(rowClass)
    /\ \A i \in 3..Len(old) : new[i] = old[i]

\* C2: whenever updateSelectors persists a changed rowSelectors list, the
\* first entry is the one it was, the second is the mined class, a fallback
\* entry follows, and every entry but the old second one is kept in place.
C2_PriorityPreserved ==
    [][(pc = "upd_apply" /\ pc' = "upd_test"
            /\ file'.table.rows /= file.table.rows)
        => /\ Truthy(mined, "rowClass")
           /\ RowsPreserved(file.table.rows, file'.table.rows,
                            mined["rowClass"])]_vars

C2_Witness ==
    /\ pc = "upd_test"
    /\ backup /= NoFile
    /\ backup.table.rows = RepoTable.rows
    /\ file.table.rows =
          <<Literal(SelReliable), Literal(RowClassNew), Literal(SelLegacy)>>

\* The entries of the mapping other than the rowClass pseudo-field
ClaimedAttempted(m) == DOMAIN m \ {"rowClass"}

\* C3: validateSelectors accepts exactly when valid / attempted >= 0.70.
C3_AcceptsIffSeventyPercent ==
    (pc = "validated" /\ ClaimedAttempted(mined) /= {})
        => (isValid <=>
              10 * validCount >= 7 * Cardinality(ClaimedAttempted(mined)))

\* C4: the divisor validateSelectors uses is the number of entries other
\* than rowClass, and the ratio it compares lies between 0 and 1.
C4_RatioIsValidOverAttempted ==
    pc = "validated"
        => /\ totalCount - 1 = Cardinality(ClaimedAttempted(mined))
           /\ validCount <= totalCount - 1

Called(f) == \E i \in 1..Len(calls) : calls[i] = f

\* The least index of a non-empty set of indices
Least(S) == CHOOSE i \in S : \A j \in S : i <= j

YieldsCandidate(a) ==
    a \in {"anchor", "anchorSpan", "link", "span", "spanAccess", "request",
           "visible", "sel"}

\* C6: each field of cellMapping is mined independently: whatever earlier
\* cells answered (nothing, or a throw), every mapped cell the row has is
\* probed, the result holds a field exactly when its cell yielded a locator,
\* and mineSelectors returns with the whole table processed.
C6_FieldsMinedIndependently ==
    (pc \in {"mine_cells", "mine_ret"} /\ rowCells >= MinCells)
        => /\ pc = "mine_ret" => mi = Len(cellMapping) + 1
           /\ \A i \in 1..Len(cellMapping) :
                 i < mi =>
                    LET f == cellMapping[i].type
                        present == cellMapping[i].index < rowCells
                    IN /\ present => seen[f] /= "unprobed"
                       /\ Has(mined, f) <=>
                             (present /\ YieldsCandidate(seen[f]))

C6_Witness ==
    /\ pc = "mine_ret"
    /\ Cardinality({f \in MappedFields : seen[f] = "throw"}) = 1
    /\ Cardinality({f \in MappedFields : Has(mined, f)}) = 8
    /\ seen["name"] = "throw"
    /\ ~Has(mined, "rowClass")
    /\ Cardinality(DOMAIN mined) = 8

\* C7: a pass whose mining yields exactly name, jobTitle and companyName
\* goes on to validation, is accepted with 3 of 3, and updateSelectors
\* writes a backup and 3 updates with a change log of 3 entries.
C7_ThreeFieldScenario ==
    (pc = "done" /\ DOMAIN mined = {"name", "jobTitle", "companyName"})
        => /\ Called("validateSelectors")
           /\ Called("updateSelectors")
           /\ validCount = 3 => (isValid /\ changed = 3 /\ Len(changes) = 3
                                   /\ backup /= NoFile)

\* the candidates of a page whose first row has the minimum number of cells
Qualifying(page) ==
    {i \in 1..Len(page) : page[i].count > 0 /\ page[i].cells >= MinCells}

\* C8: mineSelectors accepts the first candidate whose first row has at
\* least 10 cells; candidates whose first row is shorter are passed over.
C8_AcceptsFirstWithEnoughCells ==
    (pc \in {"mine_cells", "mine_ret"} /\ Qualifying(doc.rowPage) /= {})
        => /\ rowSel = Least(Qualifying(doc.rowPage))
           /\ rowCells >= MinCells

\* C9: when no candidate yields a row of at least 10 cells, mineSelectors
\* returns an object without any key, and the pass neither writes
\* selectors.ts nor its backup.
C9_RowDetectionFailureIsEmpty ==
    Qualifying(doc.rowPage) = {}
        => /\ pc \in {"mine_ret", "done"} => mined = EmptyMined
           /\ ~Called("updateSelectors")
           /\ backup = NoFile

\* C10: updateSelectors is called only after validateSelectors accepted the
\* pass's result, and never when valid / attempted is below 0.70.
C10_UpdateOnlyAfterAcceptance ==
    Called("updateSelectors")
        => /\ Called("validateSelectors")
           /\ isValid
           /\ 10 * validCount >= 7 * Cardinality(ClaimedAttempted(mined))

\* C11: a run of updateSelectors that gets past its backup step has copied
\* selectors.ts as it then is over the backup; the backup is written in no
\* other step, the backup step leaves selectors.ts alone, and whenever
\* selectors.ts is written the backup holds its content from before the
\* write.  So the backup is the file as it was when the latest run started.
C11_BackupBeforeMutation ==
    [][/\ (pc = "upd_backup" /\ pc' = "upd_apply" /\ file /= NoFile)
             => (backup' = file /\ file' = file)
       /\ backup' /= backup => pc = "upd_backup"
       /\ file' /= file => (backup = file /\ backup' = backup)]_vars

C11_Witness ==
    /\ again
    /\ pc = "upd_test"
    /\ backup /= NoFile
    /\ backup.header /= <<>>
    /\ file /= backup
    /\ Len(file.header) = 2

\* C12: selectors.ts is written by the one save of a run and by nothing
\* else; a run that fails in or before that save leaves selectors.ts as it
\* was before the run.
C12_SingleAtomicWrite ==
    [][file' /= file => (pc = "upd_apply" /\ pc' = "upd_test")]_vars

\* a file whose text holds the SELECTORS table
HasTable(f) == f.layout \in {"flat", "nested"}

\* C13: once a run has taken its backup of a selectors.ts whose rowSelectors
\* is non-empty, selectors.ts keeps a non-empty rowSelectors with the same
\* first entry, whatever the run does; run after run, the list never
\* becomes empty and its first entry never changes.
C13_RowSelectorsNeverEmpty ==
    (HasTable(backup) /\ Len(backup.table.rows) > 0)
        => /\ HasTable(file)
           /\ Len(file.table.rows) > 0
           /\ file.table.rows[1] = backup.table.rows[1]

\* C14: the self-test runs only in a run that made at least one change and
\* only once the changes and their log are in selectors.ts; whatever it
\* counts, and also when it throws, it leaves selectors.ts and the backup as
\* they are.
C14_SelfTestIsAdvisory ==
    [][pc = "upd_test"
          => /\ changed > 0
             /\ HasTable(file)
             /\ file.header /= <<>>
             /\ file.header[1] = changes
             /\ file' = file
             /\ backup' = backup]_vars

C14_Witness ==
    /\ pc = "upd_ret"
    /\ res = [by |-> "selftest", rows |-> 0, cells |-> 0]
    /\ changed > 0
    /\ file /= backup
    /\ file.header[1] = changes

\* the table of file f maps every mined field with a locator to that locator
FieldsWritten(f, m) ==
    \A k \in DOMAIN m :
        (k /= "rowClass" /\ Truthy(m, k))
            => (k \in DOMAIN f.table.props
                   /\ f.table.props[k] = Literal(m[k]))

\* C15: a run of updateSelectors on the artifact structured as
\* { current, fallback }, once its backup is taken, completes, and the table
\* of the current variant then maps every mined field other than rowClass
\* to the mined locator.
C15_FieldsUpdatedOnArtifact ==
    (file.layout = "nested" /\ backup /= NoFile
        /\ pc \notin {"upd_backup", "upd_apply"})
        => /\ pc \in {"upd_test", "upd_ret"}
           /\ FieldsWritten(file, mined)

\* The locators rule r of the priority list allows for element e (none when
\* the rule does not apply): 1 data-testid, 2 id without a colon, 3 a
\* longest zp_ class, with a second zp_ class when a sibling shares it,
\* 4 role with the zp_ classes
RuleLocators(e, r) ==
    LET all == {e.classes[i] : i \in 1..Len(e.classes)}
        zp == {c \in all : StartsWithZp(c)}
        cand == {c \in zp : Len(c) > 6}
        longest == {c \in cand : \A d \in cand : Len(d) <= Len(c)}
    IN CASE r = 1 ->
              IF e.testid = <<>> THEN {}
              ELSE {e.tag \o <<"[", DQ>> \o e.testid \o <<DQ, "]">>}
         [] r = 2 ->
              IF e.id = <<>> \/ HasColon(e.id) THEN {}
              ELSE {<<"#">> \o e.id}
         [] r = 3 ->
              {e.tag \o <<".">> \o c : c \in longest \ e.sibs}
                 \cup UNION {{e.tag \o <<".">> \o c \o <<".">> \o d :
                                 d \in zp \ {c}} :
                             c \in longest \cap e.sibs}
         [] r = 4 ->
              IF e.role = <<>> \/ zp = {} THEN {}
              ELSE {e.tag \o <<"[", "r", "=", DQ>> \o e.role
                        \o <<DQ, "]", ".">>
                        \o JoinDot(SelectSeq(e.classes, StartsWithZp))}

C17_WalksThreeAncestors ==
    pc = "gen_ret"
        => LET levels == {i \in 1..4 :
                             i <= Len(el) /\ generateSelector(el[i]) /= Null}
           IN IF levels = {}
              THEN selector = Null
              ELSE selector = generateSelector(el[Least(levels)])

\* C18: the row class mined from the row element is the longest of its
\* classes that start with zp_ and have the minimum length, whatever the
\* order of the class list; without such a class there is none.
C18_RowClassIsLongest ==
    pc = "rowclass_ret"
        => LET all == {el[1].classes[i] : i \in 1..Len(el[1].classes)}
               cand == {c \in all : StartsWithZp(c) /\ Len(c) > 10}
           IN IF cand = {}
              THEN selector = Null
              ELSE \E c \in cand :
                      /\ \A d \in cand : Len(d) <= Len(c)
                      /\ selector = <<"d", ".">> \o c

\* C19: every key of the object mineSelectors builds maps to a non-empty
\* locator string; a field without a candidate is not a key of it.
C19_AbsenceNotNull ==
    pc \in {"mine_cells", "mine_ret"}
        => \A k \in DOMAIN mined : mined[k] /= Null /\ mined[k] /= <<>>

\* the probe of the row selectors, the one that counts rows
IsRowProbe(result) == result.description = DescRows

FailedProbes(rs) == SelectSeq(FlatResults(rs), LAMBDA r : ~r.exists)

\* what the monitor leaves alone: the persisted selectors, their backup,
\* and the miner, the validator and the updater
MonitorTouchesNothing ==
    /\ file = RepoFile
    /\ backup = NoFile
    /\ calls = <<>>
    /\ mined = EmptyMined
    /\ changed = 0

C28_SameFailedCount ==
    pc = "reported" => Len(FailedSelectors(results)) = report.failed

\* the category the handler has just pushed
Pushed == results'[Len(results')]

\* C22: a login-page probe that fails does not end the handler: the
\* post-login category is next, in the same invocation.
C22_FailedProbeDoesNotAbort ==
    [][(pc = "mon_start" /\ results' # results
            /\ \E i \in 1..Len(Pushed.results) : ~Pushed.results[i].exists)
          => pc' = "mon_post"]_vars

\* C23: when the main app container never appears after the login, the
\* monitor's handler ends there: no navigation and no probe follows.
C23_MissingContainerIsFatal ==
    [][(pc = "mon_post" /\ results' # results /\ ~Pushed.results[1].exists)
          => pc' = "mon_throw"]_vars

\* `results` is only appended to
ResultsOnlyGrow ==
    [][Len(results') >= Len(results)
          /\ SubSeq(results', 1, Len(results)) = results]_vars

\* the report file written holds a line for every probe of the first n
\* categories, or the error file holds these categories
Covers(n) ==
    LET flat == FlatResults(SubSeq(results, 1, n))
    IN \/ /\ written.report # <<>>
          /\ Len(written.report[1].lines) >= Len(flat)
          /\ \A i \in 1..Len(flat) :
                /\ written.report[1].lines[i].description
                      = flat[i].description
                /\ written.report[1].lines[i].ok = flat[i].exists
       \/ /\ written.error # <<>>
          /\ Len(written.error[1]) >= n
          /\ SubSeq(written.error[1], 1, n) = SubSeq(results, 1, n)

CategoryOrder == <<"LOGIN PAGE", "POST-LOGIN", "DATA TABLE", "NAVIGATION">>

\* position of a category in that order
CategoryIndex(c) == CHOOSE i \in 1..Len(CategoryOrder) : CategoryOrder[i] = c

\* C27: in `results`, and so in the report made from it, the categories
\* are in the order LOGIN PAGE, POST-LOGIN, DATA TABLE, NAVIGATION and none
\* appears twice.
C27_CategoriesOnceInOrder ==
    \A i \in 1..Len(results) : \A j \in 1..Len(results) :
        i < j => CategoryIndex(results[i].category)
                    < CategoryIndex(results[j].category)

\* C25: after useFallbackSelectors the selectors read through
\* SELECTORS.current and the login and table getters are those of
\* SELECTORS.fallback.
C25_RevertsToFallback ==
    pc = "fallback_ret"
        => /\ GetTable(SELECTORS).rowSelectors
                = SELECTORS.fallback.table.rowSelectors
           /\ GetTable(SELECTORS).cell = SELECTORS.fallback.table.cell
           /\ GetTable(SELECTORS).name = SELECTORS.fallback.table.name
           /\ GetLogin(SELECTORS).submitButton
                = SELECTORS.fallback.login.submitButton

\* the changes of this pass are in selectors.ts
Persisted == file.layout \in {"flat", "nested"} /\ file.header # <<>>

\* C26: once the changes are persisted, the pass only finishes: the
\* self-test, the return of updateSelectors, the end of the handler. An
\* exception of the self-test neither fails the handler nor has the
\* crawler run it again.
C26_SelfTestFailureEndsPass ==
    Persisted => pc \in {"upd_test", "upd_ret", "done"}

\* new is old but for the second row selector, at most one row selector
\* appended, and the table fields m holds a value for
Frame(old, new, m) ==
    /\ HasTable(new)
    /\ new.layout = old.layout
    /\ new.others = old.others
    /\ new.table.hasRows = old.table.hasRows
    /\ Len(new.table.rows) \in {Len(old.table.rows), Len(old.table.rows) + 1}
    /\ \A i \in 1..Len(old.table.rows) :
          i # 2 => new.table.rows[i] = old.table.rows[i]
    /\ \A k \in DOMAIN old.table.props :
          (k = "cell" \/ ~Truthy(m, k))
              => /\ k \in DOMAIN new.table.props
                 /\ new.table.props[k] = old.table.props[k]
    /\ \A k \in DOMAIN new.table.props :
          k \notin DOMAIN old.table.props => Truthy(m, k)

\* C29: whatever a run of updateSelectors does after its backup is taken,
\* selectors.ts differs from what the run found only in the second row
\* selector, at most one appended row selector, and the table fields the
\* mined object holds a value for; the fallback variant, the other
\* sections, table.cell and the other fields are as they were.
C29_UpdaterFrame ==
    (HasTable(backup) /\ pc # "upd_backup") => Frame(backup, file, mined)

\* C30: run after run, the pages scrapeCurrentPage returned for are
\* numbered 1, 2, 3, ... without a gap and without a repeat, starting again
\* at 1 only after a run with RESET_SCRAPE; LAST_SCRAPED_PAGE is a page
\* scrapeCurrentPage has returned for; a run scrapes at most 5 pages.
C30_ResumeContiguous ==
    /\ \A i \in 1..Len(scraped) :
          scraped[i] # ResetMark
              => scraped[i] = IF i = 1 \/ scraped[i - 1] = ResetMark
                              THEN 1 ELSE scraped[i - 1] + 1
    /\ store # NoPage => \E i \in 1..Len(scraped) : scraped[i] = store
    /\ pc = "scr_page" => pageNum <= startPage + MAX_PAGES_TO_SCRAPE
====
